---------------------------- MODULE Spec2Model ----------------------------
(***************************************************************************)
(* Merged-pull-request audit: the rate-limit-aware fetcher and paginator   *)
(* of extract.py, the merge-window filter of its main loop, and the gate   *)
(* evaluator / audit-row builder of transform.py.                          *)
(*                                                                         *)
(* Each component has its own specification over the shared variables:     *)
(*   FairSpecGet   GitHubHTTP.get                                          *)
(*   SpecPages     list_closed_pr_pages + parse_next_link                  *)
(*   SpecWindow    normalize_window + the filter of main                   *)
(*   SpecRow       compute_row on composite records of the data model      *)
(*   SpecRowTotal  compute_row on records with absent / null fields        *)
(*                                                                         *)
(* Strings that the code takes apart (the Link header) are sequences of    *)
(* one-character strings.  A timestamp string YYYY-MM-DDTHH:MM:SSZ is the  *)
(* tuple <<day, slot>> of its fixed-width fields, compared as a string     *)
(* lexicographically and parsed to the instant day * SlotsPerDay + slot.   *)
(***************************************************************************)
EXTENDS Integers, Sequences, FiniteSets, TLC

VARIABLES
    \* ---- GitHubHTTP.get ----
    max_retries,   \* self.max_retries
    attempt,       \* the loop variable of `for attempt in range(max_retries)`
    resp,          \* the last response received
    wait_s,        \* the duration about to be slept
    now,           \* int(time.time())
    get_pc,        \* position in get
    requests,      \* number of sess.get calls issued by this call of get
    sleeps,        \* log of the time.sleep calls: [kind, attempt, wait_s]
    \* ---- list_closed_pr_pages ----
    n_pages,       \* the server's number of pages of closed PRs
    link_style,    \* which relations the server lists in its Link header
    per_page,      \* the per_page argument
    url,           \* the generator's url
    page_idx,      \* the generator's page_idx
    page_resp,     \* the generator's resp
    gen_pc,        \* position in the generator
    fetched,       \* log of the requests issued: [url, params]
    yielded,       \* log of the pairs handed to the caller
    \* ---- extract.main: the merge window ----
    since,         \* args.since: None or a calendar date
    until,         \* args.until
    since_dt,      \* the window's bounds as instants
    until_dt,
    win_now,       \* datetime.now(timezone.utc)
    todo,          \* the PRs of the page not yet looked at
    seen,          \* the PRs looked at, in order
    merged_prs,    \* the PRs kept for enrichment
    total_closed,
    total_merged_anytime,
    total_merged_in_window,
    win_pc,        \* position in main
    \* ---- transform.compute_row ----
    item,          \* the composite record
    out,           \* the outcome of compute_row(item)
    row_pc

getVars == <<max_retries, attempt, resp, wait_s, now, get_pc, requests, sleeps>>
genVars == <<n_pages, link_style, per_page, url, page_idx, page_resp, gen_pc,
             fetched, yielded>>

winVars == <<since, until, since_dt, until_dt, win_now, todo, seen, merged_prs,
             total_closed, total_merged_anytime, total_merged_in_window, win_pc>>
rowVars == <<item, out, row_pc>>

vars == <<getVars, genVars, winVars, rowVars>>

\* What each component leaves alone
notGet == <<genVars, winVars, rowVars>>
notGen == <<getVars, winVars, rowVars>>
notWin == <<getVars, genVars, rowVars>>
notRow == <<getVars, genVars, winVars>>

-----------------------------------------------------------------------------
(* Bounds *)

MaxRetries == 3
MaxPages == 3
MaxSlot == 1
MaxDay == 3
MaxPRs == 2
MaxReviews == 2
MaxStatuses == 2
MaxRuns == 2

-----------------------------------------------------------------------------
(* Generic helpers *)

Max(a, b) == IF a >= b THEN a ELSE b

\* floor(n / d) for n >= 0, d > 0: Python's int() of a non-negative float
FloorDiv(n, d) == n \div d

-----------------------------------------------------------------------------
(* GitHubHTTP.get                                       extract.py 46-89   *)

\* backoff = 1.2, kept as tenths: int(x * 1.2) = floor(x * 12 / 10)
BackoffTenths == 12

StartTimes == {5}

\* Response bodies the server sends, by what .lower() of them contains.
Bodies == {"", "API rate limit exceeded", "You have exceeded a secondary Rate Limit",
           "Not Found"}

\* "rate limit" in (resp.text or "").lower()
TextHasRateLimit(text) ==
    text \in {"API rate limit exceeded", "You have exceeded a secondary Rate Limit"}

\* The X-RateLimit-Reset header: absent, a non-numeric string, or digits.
NoHeader == [k |-> "absent", v |-> 0]
BadHeader == [k |-> "nondigit", v |-> 0]
DigitHeader(n) == [k |-> "digits", v |-> n]

ResetHeaders(t) == {NoHeader, BadHeader} \cup {DigitHeader(n) : n \in (t - 2)..(t + 1)}

StatusCodes == {200, 301, 403, 404, 500}

\* What the server may answer at time t.
Responses(t) ==
    [status_code : StatusCodes, text : Bodies, reset : {NoHeader}]
    \cup [status_code : {403}, text : Bodies, reset : ResetHeaders(t)]

\* requests.Response.raise_for_status raises for 4xx and 5xx
RaisesForStatus(r) == 400 <= r.status_code /\ r.status_code < 600

\* requests.Response.ok: raise_for_status does not raise
Ok(r) == ~RaisesForStatus(r)

\* line 78
IsRateLimited(r) == r.status_code = 403 /\ TextHasRateLimit(r.text)

\* line 81, right arm: int((attempt+1)*self.backoff*5)
FallbackWait(a) == FloorDiv((a + 1) * BackoffTenths * 5, 10)

\* line 81: reset and reset.isdigit() selects the left arm
RateLimitWait(r, a, t) ==
    IF r.reset.k = "digits"
    THEN Max(0, r.reset.v - t + 1)
    ELSE FallbackWait(a)

\* line 87: int((attempt+1)*self.backoff)
BackoffWait(a) == FloorDiv((a + 1) * BackoffTenths, 10)

\* line 75: the for loop runs its body while attempt is in range(max_retries)
LoopContinuesOffByOne(a, m) == a <= m
LoopContinues(a, m) == a < m

NoResp == [status_code |-> 0, text |-> "", reset |-> NoHeader]

GetStart ==
    /\ max_retries \in 1..MaxRetries
    /\ attempt = 0
    /\ resp = NoResp
    /\ wait_s = 0
    /\ now \in StartTimes
    /\ get_pc = "loop"
    /\ requests = 0
    /\ sleeps = <<>>

\* lines 75-87 up to the sleep: one request and the classification of its answer
Attempt ==
    /\ get_pc = "loop"
    /\ LoopContinues(attempt, max_retries)
    /\ \E r \in Responses(now) :
        /\ resp' = r
        /\ requests' = requests + 1
        /\ IF IsRateLimited(r)
           THEN /\ wait_s' = RateLimitWait(r, attempt, now)
                /\ get_pc' = "wait_rate_limit"
           ELSE IF Ok(r)
           THEN /\ wait_s' = wait_s
                /\ get_pc' = "returned"
           ELSE /\ wait_s' = BackoffWait(attempt)
                /\ get_pc' = "backoff"
    /\ UNCHANGED <<max_retries, attempt, now, sleeps>>
    /\ UNCHANGED notGet

\* lines 82-83: time.sleep(wait_s); continue
WaitRateLimit ==
    /\ get_pc = "wait_rate_limit"
    /\ now' = now + wait_s
    /\ sleeps' = Append(sleeps, [kind |-> "rate_limit", attempt |-> attempt,
                                 wait_s |-> wait_s, reset |-> resp.reset, at |-> now])
    /\ attempt' = attempt + 1
    /\ get_pc' = "loop"
    /\ UNCHANGED <<max_retries, resp, wait_s, requests>>
    /\ UNCHANGED notGet

\* line 87: time.sleep(int((attempt+1)*self.backoff)), then the next iteration
Backoff ==
    /\ get_pc = "backoff"
    /\ now' = now + wait_s
    /\ sleeps' = Append(sleeps, [kind |-> "backoff", attempt |-> attempt,
                                 wait_s |-> wait_s, reset |-> resp.reset, at |-> now])
    /\ attempt' = attempt + 1
    /\ get_pc' = "loop"
    /\ UNCHANGED <<max_retries, resp, wait_s, requests>>
    /\ UNCHANGED notGet

\* line 89: the loop is over; resp.raise_for_status()
Exhausted ==
    /\ get_pc = "loop"
    /\ ~LoopContinues(attempt, max_retries)
    /\ get_pc' = IF RaisesForStatus(resp) THEN "raised" ELSE "returned_none"
    /\ UNCHANGED <<max_retries, attempt, resp, wait_s, now, requests, sleeps>>
    /\ UNCHANGED notGet

-----------------------------------------------------------------------------
(* Character strings: sequences of one-character strings *)

\* Index of the first occurrence of character c in s, 0 if there is none
RECURSIVE IndexOf(_, _, _)
IndexOf(s, c, i) ==
    IF i > Len(s) THEN 0
    ELSE IF s[i] = c THEN i
    ELSE IndexOf(s, c, i + 1)

\* str.split(sep) for a one-character separator
RECURSIVE Split(_, _)
Split(s, sep) ==
    LET i == IndexOf(s, sep, 1)
    IN  IF i = 0 THEN <<s>>
        ELSE <<SubSeq(s, 1, i - 1)>> \o Split(SubSeq(s, i + 1, Len(s)), sep)

\* str.lstrip(chars) and str.rstrip(chars)
RECURSIVE LStrip(_, _)
LStrip(s, chars) ==
    IF s # <<>> /\ Head(s) \in chars THEN LStrip(Tail(s), chars) ELSE s

RECURSIVE RStrip(_, _)
RStrip(s, chars) ==
    IF s # <<>> /\ s[Len(s)] \in chars THEN RStrip(SubSeq(s, 1, Len(s) - 1), chars) ELSE s

\* str.strip(): whitespace off both ends
Whitespace == {" ", "\t"}
Strip(s) == RStrip(LStrip(s, Whitespace), Whitespace)

-----------------------------------------------------------------------------
(* parse_next_link                                      extract.py 92-103  *)

\* An optional string: None, or a character string.
None == [k |-> "none", v |-> <<>>]
Str(chars) == [k |-> "str", v |-> chars]

\* Python truthiness of an optional string
Truthy(o) == o.k = "str" /\ o.v # <<>>

RelNext == <<"r", "e", "l", "=", "\"", "n", "e", "x", "t", "\"">>

\* lines 99-103: the first comma-separated part whose second ;-segment is
\* rel="next" gives the URL, its first segment without < and >
RECURSIVE NextInParts(_)
NextInParts(parts) ==
    IF parts = <<>> THEN None
    ELSE LET raw == Split(Head(parts), ";")
             segs == [i \in 1..Len(raw) |-> Strip(raw[i])]
         IN  IF Len(segs) >= 2 /\ segs[2] = RelNext
             THEN Str(RStrip(LStrip(segs[1], {"<"}), {">"}))
             ELSE NextInParts(Tail(parts))

\* A plausible slip: only the first entry of the header is looked at.
parse_next_link_first_entry(link_header) ==
    IF ~Truthy(link_header) THEN None
    ELSE NextInParts(<<Head(Split(link_header.v, ","))>>)

parse_next_link(link_header) ==
    IF ~Truthy(link_header) THEN None
    ELSE NextInParts(Split(link_header.v, ","))

-----------------------------------------------------------------------------
(* The forge's closed-PR collection, as the paginator sees it *)

Digits == <<"0", "1", "2", "3", "4", "5", "6", "7", "8", "9">>

\* f"{API}/repos/{owner}/{repo}/pulls", shortened
BaseUrl == <<"/", "p", "u", "l", "l", "s">>

\* The URL the server gives for page i in its Link header
PageUrl(i) == BaseUrl \o <<"?", "p", "a", "g", "e", "=", Digits[i + 1]>>

\* The page a URL addresses
PageOf(u) == IF u = BaseUrl THEN 1 ELSE CHOOSE i \in 1..9 : PageUrl(i) = u

\* The payload of page i
Payload(i) == [page |-> i]

\* One entry of a Link header: <url>; rel="relation"
LinkEntry(u, rel) ==
    <<"<">> \o u \o <<">", ";", " ", "r", "e", "l", "=", "\"">> \o rel \o <<"\"">>

RECURSIVE JoinEntries(_)
JoinEntries(es) ==
    IF Len(es) = 1 THEN es[1]
    ELSE es[1] \o <<",", " ">> \o JoinEntries(Tail(es))

LinkStyles == {"next", "next_last", "prev_next", "github"}

\* The entries of the Link header of page i of n, in the forge's order
\* prev, next, last, first.
LinkEntries(i, n, style) ==
    (IF i > 1 /\ style \in {"prev_next", "github"}
     THEN <<LinkEntry(PageUrl(i - 1), <<"p", "r", "e", "v">>)>> ELSE <<>>)
    \o (IF i < n THEN <<LinkEntry(PageUrl(i + 1), <<"n", "e", "x", "t">>)>> ELSE <<>>)
    \o (IF i < n /\ style \in {"next_last", "github"}
        THEN <<LinkEntry(PageUrl(n), <<"l", "a", "s", "t">>)>> ELSE <<>>)
    \o (IF i > 1 /\ style = "github"
        THEN <<LinkEntry(PageUrl(1), <<"f", "i", "r", "s", "t">>)>> ELSE <<>>)

\* resp.headers.get("Link") of page i: None when the header has no entry
LinkHeader(i, n, style) ==
    IF LinkEntries(i, n, style) = <<>> THEN None
    ELSE Str(JoinEntries(LinkEntries(i, n, style)))

\* The successful response to a request for URL u
PageResponse(u, n, style) ==
    [json |-> Payload(PageOf(u)), link |-> LinkHeader(PageOf(u), n, style)]

NoPage == [json |-> Payload(0), link |-> None]

-----------------------------------------------------------------------------
(* list_closed_pr_pages                                 extract.py 105-118 *)

PerPages == {1, 30, 100}

\* line 112, and line 115: params only with the first request
Params(idx, pp) ==
    IF idx = 1
    THEN [state |-> "closed", per_page |-> pp, sort |-> "updated", direction |-> "desc"]
    ELSE [state |-> "", per_page |-> 0, sort |-> "", direction |-> ""]

GenStart ==
    /\ n_pages \in 1..MaxPages
    /\ link_style \in LinkStyles
    /\ per_page \in PerPages
    /\ url = Str(BaseUrl)
    /\ page_idx = 1
    /\ page_resp = NoPage
    /\ gen_pc = "request"
    /\ fetched = <<>>
    /\ yielded = <<>>

GenIdle ==
    /\ n_pages = 0
    /\ link_style = "next"
    /\ per_page = 0
    /\ url = None
    /\ page_idx = 0
    /\ page_resp = NoPage
    /\ gen_pc = "idle"
    /\ fetched = <<>>
    /\ yielded = <<>>

\* line 115: http.get returns the page
GenRequest ==
    /\ gen_pc = "request"
    /\ fetched' = Append(fetched, [url |-> url.v, params |-> Params(page_idx, per_page)])
    /\ page_resp' = PageResponse(url.v, n_pages, link_style)
    /\ gen_pc' = "yield"
    /\ UNCHANGED <<n_pages, link_style, per_page, url, page_idx, yielded>>
    /\ UNCHANGED notGen

\* line 115: http.get raises (retries exhausted); the generator ends with it
GenRequestFails ==
    /\ gen_pc = "request"
    /\ fetched' = Append(fetched, [url |-> url.v, params |-> Params(page_idx, per_page)])
    /\ gen_pc' = "raised"
    /\ UNCHANGED <<n_pages, link_style, per_page, url, page_idx, page_resp, yielded>>
    /\ UNCHANGED notGen

\* line 116: yield page_idx, resp.json()
GenYield ==
    /\ gen_pc = "yield"
    /\ yielded' = Append(yielded, <<page_idx, page_resp.json>>)
    /\ gen_pc' = "suspended"
    /\ UNCHANGED <<n_pages, link_style, per_page, url, page_idx, page_resp, fetched>>
    /\ UNCHANGED notGen

\* lines 117-118 and the loop test of line 114, when the caller asks for more
GenResume ==
    /\ gen_pc = "suspended"
    /\ url' = parse_next_link(page_resp.link)
    /\ page_idx' = page_idx + 1
    /\ gen_pc' = IF Truthy(url') THEN "request" ELSE "done"
    /\ UNCHANGED <<n_pages, link_style, per_page, page_resp, fetched, yielded>>
    /\ UNCHANGED notGen

-----------------------------------------------------------------------------
(* JSON values and timestamps *)

\* A dictionary entry holding a string: the key may be absent, hold null
\* (None, defined above), or hold a string.
Absent == [k |-> "absent", v |-> <<>>]
EmptyStr == Str(<<>>)

\* d.get(key): an absent key gives None
DictGet(field) == IF field.k = "absent" THEN None ELSE field

\* d.get(key, default)
DictGetOr(field, default) == IF field.k = "absent" THEN default ELSE field

\* Instants of a day
SlotsPerDay == MaxSlot + 1

\* An optional datetime
NoneDt == [k |-> "none", t |-> 0]
Dt(t) == [k |-> "dt", t |-> t]

\* transform.parse_iso / extract._parse_iso on a None-or-string value:
\* falsy gives None, else the UTC instant of the timestamp string
parse_iso(s) ==
    IF ~Truthy(s) THEN NoneDt
    ELSE Dt(s.v[1] * SlotsPerDay + s.v[2])

\* Python's < on two strings, here tuples of fixed-width fields: lexicographic
RECURSIVE StrLess(_, _)
StrLess(a, b) ==
    IF b = <<>> THEN FALSE
    ELSE IF a = <<>> THEN TRUE
    ELSE IF Head(a) # Head(b) THEN Head(a) < Head(b)
    ELSE StrLess(Tail(a), Tail(b))

-----------------------------------------------------------------------------
(* review_approved_before_merge                         transform.py 38-50 *)

APPROVED == "APPROVED"

\* A plausible slip: the timing test left out.
ReviewCountsIgnoringTime(r, merged_at_dt) == TRUE

\* line 48
ReviewCounts(r, merged_at_dt) ==
    LET sub == parse_iso(DictGet(r.submitted_at))
    IN  sub.k = "none" \/ merged_at_dt.k = "none" \/ sub.t <= merged_at_dt.t

\* lines 45-50: the loop returns at the first review that counts
RECURSIVE review_approved_before_merge(_, _)
review_approved_before_merge(reviews, merged_at_dt) ==
    IF reviews = <<>> THEN FALSE
    ELSE IF Head(reviews).state = APPROVED /\ ReviewCounts(Head(reviews), merged_at_dt)
    THEN TRUE
    ELSE review_approved_before_merge(Tail(reviews), merged_at_dt)

-----------------------------------------------------------------------------
(* required_contexts_from_protection                    transform.py 52-67 *)

\* list(dict.fromkeys(xs)): duplicates removed, first occurrences kept in order
RECURSIVE Dedupe(_)
Dedupe(xs) ==
    IF xs = <<>> THEN <<>>
    ELSE LET init == Dedupe(SubSeq(xs, 1, Len(xs) - 1))
             last == xs[Len(xs)]
         IN  IF \E i \in 1..Len(init) : init[i] = last THEN init ELSE Append(init, last)

\* lines 60-67; a context name is a string, "" being falsy
required_contexts_from_protection(required) ==
    IF required.k # "dict" THEN <<>>
    ELSE Dedupe(
           (IF required.contexts.k = "list"
            THEN SelectSeq(required.contexts.v, LAMBDA c : c # "") ELSE <<>>)
           \o (IF required.checks.k = "list"
               THEN SelectSeq(required.checks.v, LAMBDA c : c # "") ELSE <<>>))

-----------------------------------------------------------------------------
(* latest_context_state_before_merge                    transform.py 69-84 *)

\* line 79: key=lambda s: s.get("updated_at", "")
SortKey(st) == DictGetOr(st.updated_at, EmptyStr)

\* A plausible slip: equal keys are passed over too, so the sort is not stable
\* and the last-seen of several equal entries comes first.
RECURSIVE InsertDescLastSeenFirst(_, _)
InsertDescLastSeenFirst(sorted, st) ==
    IF sorted = <<>> THEN <<st>>
    ELSE IF ~StrLess(SortKey(st).v, SortKey(Head(sorted)).v)
    THEN <<st>> \o sorted
    ELSE <<Head(sorted)>> \o InsertDescLastSeenFirst(Tail(sorted), st)

\* list.sort(key=..., reverse=True) is stable: an element goes behind every
\* element whose key is greater than or equal to its own.
RECURSIVE InsertDesc(_, _)
InsertDesc(sorted, st) ==
    IF sorted = <<>> THEN <<st>>
    ELSE IF StrLess(SortKey(Head(sorted)).v, SortKey(st).v)
    THEN <<st>> \o sorted
    ELSE <<Head(sorted)>> \o InsertDesc(Tail(sorted), st)

RECURSIVE SortDesc(_)
SortDesc(xs) ==
    IF xs = <<>> THEN <<>>
    ELSE InsertDesc(SortDesc(SubSeq(xs, 1, Len(xs) - 1)), xs[Len(xs)])

\* A plausible slip: the entry's state alone decides.
LatestPassesIgnoringTime(latest, merged_at_dt) == latest.state = "success"

\* lines 81-84 on the entry picked
LatestPasses(latest, merged_at_dt) ==
    IF latest.state # "success" THEN FALSE
    ELSE LET up == parse_iso(DictGet(latest.updated_at))
         IN  up.k = "none" \/ merged_at_dt.k = "none" \/ up.t <= merged_at_dt.t

\* The result of a call: "True", "False", or the exception raised.
\* combined_status is what item.get("combined_status", {}) gave: a dict or None.
latest_context_state_before_merge(combined_status, context, merged_at_dt) ==
    IF combined_status.k = "none" THEN "AttributeError"     \* None.get, line 74
    ELSE
      LET statuses == IF combined_status.statuses.k = "list"
                      THEN combined_status.statuses.v ELSE <<>>
          candidates == SelectSeq(statuses, LAMBDA st : st.context = context)
      IN  IF candidates = <<>> THEN "False"
          ELSE IF Len(candidates) >= 2
                  /\ \E i \in 1..Len(candidates) : SortKey(candidates[i]).k = "none"
          THEN "TypeError"                                  \* None compared, line 79
          ELSE IF LatestPasses(SortDesc(candidates)[1], merged_at_dt)
          THEN "True" ELSE "False"

-----------------------------------------------------------------------------
(* all_check_runs_passed_before_merge                   transform.py 86-108 *)

PassingConclusions == {"success", "neutral", "skipped"}

\* lines 100-107 for one run
RunPasses(r, merged_at_dt) ==
    /\ r.conclusion \in PassingConclusions
    /\ LET comp == parse_iso(DictGet(r.completed_at))
       IN  ~(comp.k = "dt" /\ merged_at_dt.k = "dt" /\ comp.t > merged_at_dt.t)

\* lines 98-108: the loop breaks at the first run that does not pass
RECURSIVE RunsLoop(_, _)
RunsLoop(runs, merged_at_dt) ==
    IF runs = <<>> THEN TRUE
    ELSE IF ~RunPasses(Head(runs), merged_at_dt) THEN FALSE
    ELSE RunsLoop(Tail(runs), merged_at_dt)

\* A plausible slip: only the first run is looked at.
all_check_runs_first_only(check_runs_obj, merged_at_dt) ==
    IF check_runs_obj.k # "dict" \/ check_runs_obj.check_runs.k # "list" THEN TRUE
    ELSE IF check_runs_obj.check_runs.v = <<>> THEN TRUE
    ELSE RunPasses(Head(check_runs_obj.check_runs.v), merged_at_dt)

\* check_runs_obj is item.get("check_runs", {}): absent and None both give {}
all_check_runs_passed_before_merge(check_runs_obj, merged_at_dt) ==
    IF check_runs_obj.k # "dict" \/ check_runs_obj.check_runs.k # "list" THEN TRUE
    ELSE IF Len(check_runs_obj.check_runs.v) = 0 THEN TRUE
    ELSE RunsLoop(check_runs_obj.check_runs.v, merged_at_dt)

-----------------------------------------------------------------------------
(* compute_row                                          transform.py 110-162 *)

SUCCESS_STATES == {<<"success">>}

EmptyStatuses == [k |-> "absent", v |-> <<>>]
\* the {} default of item.get("combined_status", {})
EmptyCombined == [k |-> "dict", state |-> Absent, statuses |-> EmptyStatuses]

\* safe_get(item, "combined_status", "state", default="unknown"), lines 26-35:
\* an absent or non-dict combined_status gives the default, a dict its
\* "state" entry (None included) or the default when the key is absent
safe_get_combined_state(it) ==
    IF it.combined_status.k # "dict" THEN Str(<<"unknown">>)
    ELSE DictGetOr(it.combined_status.state, Str(<<"unknown">>))

\* all(latest_context_state_before_merge(...) for ctx in required_ctxs),
\* lines 141-144: stops at the first context that is not True
RECURSIVE AllContexts(_, _, _)
AllContexts(ctxs, combined_status, merged_at_dt) ==
    IF ctxs = <<>> THEN "True"
    ELSE LET r == latest_context_state_before_merge(combined_status, Head(ctxs),
                                                    merged_at_dt)
         IN  IF r = "True" THEN AllContexts(Tail(ctxs), combined_status, merged_at_dt)
             ELSE r

\* lines 139-149; the strict path is taken when required_ctxs is truthy
ChecksVerdict(required_ctxs, combined_status, merged_at_dt, combined_ok, runs_ok) ==
    IF required_ctxs # <<>>
    THEN [path |-> "strict",
          result |-> AllContexts(required_ctxs, combined_status, merged_at_dt)]
    ELSE [path |-> "fallback",
          result |-> IF combined_ok /\ runs_ok THEN "True" ELSE "False"]

NoRow == [number |-> 0, title |-> None, author |-> None, base |-> None, head |-> None,
          merge_commit |-> None, merged_at |-> None,
          CR_PASSED |-> FALSE, CHECKS_PASSED |-> FALSE]

Raised(e) == [exc |-> e, path |-> "", row |-> NoRow]

\* The call's outcome: the exception raised ("" for none), the path taken for
\* CHECKS_PASSED, and the row returned.
compute_row(it) ==
    LET pr == it.pr
        title == DictGetOr(pr.title, EmptyStr)                           \* 116
        merged_at == DictGetOr(pr.merged_at, EmptyStr)                   \* 118
        merged_at_dt == parse_iso(merged_at)                             \* 119
        reviews == IF it.reviews.k = "list" THEN it.reviews.v ELSE <<>>   \* 125-127
        cr_passed == review_approved_before_merge(reviews, merged_at_dt)
        required_ctxs == required_contexts_from_protection(it.required_status_checks)
        combined_status == IF it.combined_status.k = "absent"
                           THEN EmptyCombined ELSE it.combined_status  \* 133
        combined_state == safe_get_combined_state(it)                  \* 135
        combined_ok == combined_state.k = "str" /\ combined_state.v \in SUCCESS_STATES
        runs_ok == all_check_runs_passed_before_merge(it.check_runs, merged_at_dt)
        checks == ChecksVerdict(required_ctxs, combined_status, merged_at_dt,
                                combined_ok, runs_ok)
    IN  \* pr.get("user", {}).get("login", ""), line 117: None has no .get
        IF pr.user.k = "none" THEN Raised("AttributeError")
        ELSE IF pr.base.k = "none" THEN Raised("AttributeError")         \* 120
        ELSE IF pr.head.k = "none" THEN Raised("AttributeError")         \* 121
        ELSE IF checks.result \notin {"True", "False"} THEN Raised(checks.result)
        ELSE
          [exc |-> "",
           path |-> checks.path,
           row |-> [number |-> pr.number,
                    title |-> title,
                    author |-> IF pr.user.k = "absent" THEN EmptyStr
                               ELSE DictGetOr(pr.user.login, EmptyStr),
                    base |-> IF pr.base.k = "absent" THEN EmptyStr
                             ELSE DictGetOr(pr.base.ref, EmptyStr),
                    head |-> IF pr.head.k = "absent" THEN EmptyStr
                             ELSE DictGetOr(pr.head.ref, EmptyStr),
                    merge_commit |->                                     \* 122
                        IF Truthy(DictGet(pr.merge_commit_sha))
                        THEN pr.merge_commit_sha
                        ELSE IF pr.head.k = "absent" THEN EmptyStr
                        ELSE DictGetOr(pr.head.sha, EmptyStr),
                    merged_at |-> merged_at,
                    CR_PASSED |-> cr_passed,
                    CHECKS_PASSED |-> checks.result = "True"]]

-----------------------------------------------------------------------------
(* normalize_window and the window filter of main   extract.py 35-43, 157-185 *)

\* timedelta(days=365)
DefaultWindowDays == 365

\* datetime.fromisoformat("YYYY-MM-DD").replace(tzinfo=utc): midnight of the day
FromIsoDate(date) == date.v[1] * SlotsPerDay

\* _to_utc_iso, lines 23-25: the instant as a timestamp string
to_utc_iso(t) == Str(<<t \div SlotsPerDay, t % SlotsPerDay>>)

\* lines 40-43: the pair of ISO strings
normalize_window(s, u, t) ==
    LET s_dt == IF Truthy(s) THEN FromIsoDate(s) ELSE t - DefaultWindowDays * SlotsPerDay
        u_dt == IF Truthy(u) THEN FromIsoDate(u) ELSE t
    IN  <<to_utc_iso(s_dt), to_utc_iso(u_dt)>>

\* line 185: (since_dt is None or m_dt >= since_dt)
SinceOk(m_dt, s_dt) == s_dt.k = "none" \/ m_dt.t >= s_dt.t

\* the rest of the condition of line 185, which the source file breaks off
\* before: merged_at <= until (spec 4.3)
UntilOk(m_dt, u_dt) == u_dt.k = "none" \/ m_dt.t <= u_dt.t

Days == 1..MaxDay
Slots == 0..MaxSlot
Dates == {Str(<<d>>) : d \in Days}
Stamps == {Str(<<d, sl>>) : d \in Days, sl \in Slots}

SeqsUpTo(S, n) == UNION {[1..m -> S] : m \in 0..n}

\* A page of closed PRs: each with its number and merged_at (null: not merged)
PullPages ==
    {[i \in 1..Len(ms) |-> [number |-> i, merged_at |-> ms[i]]] :
        ms \in SeqsUpTo(Stamps \cup {None}, MaxPRs) \ {<<>>}}

WinStart ==
    /\ since \in Dates \cup {None}
    /\ until \in Dates \cup {None}
    /\ since_dt = NoneDt
    /\ until_dt = NoneDt
    /\ win_now = MaxDay * SlotsPerDay + MaxSlot
    /\ todo = <<>>
    /\ seen = <<>>
    /\ merged_prs = <<>>
    /\ total_closed = 0
    /\ total_merged_anytime = 0
    /\ total_merged_in_window = 0
    /\ win_pc = "start"

WinIdle ==
    /\ since = None
    /\ until = None
    /\ since_dt = NoneDt
    /\ until_dt = NoneDt
    /\ win_now = 0
    /\ todo = <<>>
    /\ seen = <<>>
    /\ merged_prs = <<>>
    /\ total_closed = 0
    /\ total_merged_anytime = 0
    /\ total_merged_in_window = 0
    /\ win_pc = "idle"

\* lines 158-159
WinNormalize ==
    /\ win_pc = "start"
    /\ LET isos == normalize_window(since, until, win_now)
       IN  /\ since_dt' = parse_iso(isos[1])
           /\ until_dt' = parse_iso(isos[2])
    /\ win_pc' = "page"
    /\ UNCHANGED <<since, until, win_now, todo, seen, merged_prs, total_closed,
                   total_merged_anytime, total_merged_in_window>>
    /\ UNCHANGED notWin

\* lines 174-177: the paginator hands over a page
WinPage ==
    /\ win_pc = "page"
    /\ \E payload \in PullPages :
        /\ todo' = payload
        /\ total_closed' = total_closed + Len(payload)
    /\ win_pc' = "prs"
    /\ UNCHANGED <<since, until, since_dt, until_dt, win_now, seen, merged_prs,
                   total_merged_anytime, total_merged_in_window>>
    /\ UNCHANGED notWin

\* lines 179-185: one PR of the page
WinFilterPR ==
    /\ win_pc = "prs"
    /\ todo # <<>>
    /\ LET pr == Head(todo)
           m_at == DictGet(pr.merged_at)
           m_dt == parse_iso(m_at)
           keep == Truthy(m_at) /\ SinceOk(m_dt, since_dt) /\ UntilOk(m_dt, until_dt)
       IN  /\ total_merged_anytime' = total_merged_anytime + (IF Truthy(m_at) THEN 1 ELSE 0)
           /\ total_merged_in_window' = total_merged_in_window + (IF keep THEN 1 ELSE 0)
           /\ merged_prs' = IF keep THEN Append(merged_prs, pr) ELSE merged_prs
           /\ seen' = Append(seen, pr)
    /\ todo' = Tail(todo)
    /\ UNCHANGED <<since, until, since_dt, until_dt, win_now, total_closed, win_pc>>
    /\ UNCHANGED notWin

-----------------------------------------------------------------------------
(* Composite records *)

Contexts == {"ci/build", "ci/test"}

\* The timestamps of the evaluator's inputs: the instants of one day and the
\* first instant of the next
EvalStamps == {Str(<<1, sl>>) : sl \in Slots} \cup {Str(<<2, 0>>)}

List(xs) == [k |-> "list", v |-> xs]
NoList == [k |-> "absent", v |-> <<>>]
NullList == [k |-> "none", v |-> <<>>]

UserOf(login) == [k |-> "dict", login |-> login]
BranchOf(ref, sha) == [k |-> "dict", ref |-> ref, sha |-> sha]
CombinedOf(state, statuses) == [k |-> "dict", state |-> state, statuses |-> statuses]
RunsOf(runs) == [k |-> "dict", check_runs |-> runs]
RequiredOf(contexts, checks) == [k |-> "dict", contexts |-> contexts, checks |-> checks]

NoUser == [k |-> "absent", login |-> Absent]
NullUser == [k |-> "none", login |-> Absent]
NoBranch == [k |-> "absent", ref |-> Absent, sha |-> Absent]
NullBranch == [k |-> "none", ref |-> Absent, sha |-> Absent]
NoCombined == [k |-> "absent", state |-> Absent, statuses |-> NoList]
NullCombined == [k |-> "none", state |-> Absent, statuses |-> NoList]
NoRuns == [k |-> "absent", check_runs |-> NoList]
NullRuns == [k |-> "none", check_runs |-> NoList]
NoRequired == [k |-> "absent", contexts |-> NoList, checks |-> NoList]
NullRequired == [k |-> "none", contexts |-> NoList, checks |-> NoList]

PullOf(merged_at) ==
    [number |-> 42, title |-> Str(<<"Fix">>), user |-> UserOf(Str(<<"kerry">>)),
     merged_at |-> merged_at, base |-> BranchOf(Str(<<"main">>), Str(<<"b0">>)),
     head |-> BranchOf(Str(<<"topic">>), Str(<<"h0">>)),
     merge_commit_sha |-> Str(<<"m0">>)]

ItemOf(pr, reviews, combined, runs, required) ==
    [pr |-> pr, reviews |-> reviews, combined_status |-> combined,
     check_runs |-> runs, required_status_checks |-> required]

MergedAts == EvalStamps \cup {None}

ReviewSet == [state : {"APPROVED", "COMMENTED", "CHANGES_REQUESTED"},
              submitted_at : EvalStamps \cup {None}]
StatusSet == [context : Contexts, state : {"success", "failure"},
              updated_at : EvalStamps \cup {Absent}]
\* conclusion "none" is a null conclusion (a run in progress)
RunSet == [conclusion : {"success", "neutral", "skipped", "failure", "none"},
           completed_at : EvalStamps \cup {None}]

\* Branch-protection payloads naming at least one context, in both shapes
StrictRequired ==
    {RequiredOf(List(<<"ci/build">>), NoList),
     RequiredOf(List(<<"ci/build", "ci/test">>), NoList),
     RequiredOf(NoList, List(<<"ci/test">>)),
     RequiredOf(List(<<"ci/build">>), List(<<"ci/build", "ci/test">>))}

\* Required contexts unavailable (key absent, null) or empty
EmptyRequired ==
    {NoRequired, NullRequired, RequiredOf(NoList, NoList), RequiredOf(List(<<>>), NoList),
     RequiredOf(List(<<"">>), List(<<"">>))}

SuccessState == Str(<<"success">>)
CombinedStates == {SuccessState, Str(<<"failure">>), Str(<<"pending">>)}

\* Records that vary the reviews
ReviewItem(it) ==
    \E m \in MergedAts, rs \in SeqsUpTo(ReviewSet, MaxReviews) :
        it = ItemOf(PullOf(m), List(rs), CombinedOf(SuccessState, List(<<>>)),
                    RunsOf(List(<<>>)), NoRequired)

\* Records on the strict path that vary the status entries
StrictItem(it) ==
    \E m \in MergedAts, sts \in SeqsUpTo(StatusSet, MaxStatuses), rq \in StrictRequired :
        it = ItemOf(PullOf(m), List(<<>>), CombinedOf(SuccessState, List(sts)),
                    RunsOf(List(<<>>)), rq)

\* Records on the fallback path that vary the check runs
FallbackRunItem(it) ==
    \E m \in MergedAts, runs \in SeqsUpTo(RunSet, MaxRuns) :
        it = ItemOf(PullOf(m), List(<<>>), CombinedOf(SuccessState, List(<<>>)),
                    RunsOf(List(runs)), NoRequired)

\* Records on the fallback path that vary the combined status
FallbackStateItem(it) ==
    \E m \in MergedAts, runs \in SeqsUpTo(RunSet, 1),
       rq \in {NoRequired, RequiredOf(List(<<>>), NoList)},
       cs \in {CombinedOf(st, List(<<>>)) : st \in CombinedStates} \cup {NoCombined} :
        it = ItemOf(PullOf(m), List(<<>>), cs, RunsOf(List(runs)), rq)

\* Records that vary the branch-protection payload against a few statuses and runs
PathItem(it) ==
    \E cs \in {SuccessState, Str(<<"failure">>)},
       sts \in {<<>>,
                <<[context |-> "ci/build", state |-> "success", updated_at |-> Str(<<1, 0>>)]>>,
                <<[context |-> "ci/build", state |-> "success", updated_at |-> Str(<<1, 0>>)],
                  [context |-> "ci/test", state |-> "success", updated_at |-> Str(<<1, 1>>)]>>},
       runs \in {NoRuns, NullRuns, RunsOf(NoList), RunsOf(NullList),
                 RunsOf(List(<<[conclusion |-> "failure", completed_at |-> Str(<<1, 0>>)]>>))},
       rq \in StrictRequired \cup EmptyRequired :
        it = ItemOf(PullOf(Str(<<1, 1>>)), List(<<>>), CombinedOf(cs, List(sts)), runs, rq)

\* Records with fields absent or null
MalformedItem(it) ==
    \E t \in {Absent, None, Str(<<"Fix">>)},
       u \in {NoUser, NullUser, UserOf(Absent), UserOf(None), UserOf(Str(<<"kerry">>))},
       m \in {Absent, None, Str(<<1, 1>>)},
       b \in {NoBranch, NullBranch, BranchOf(Str(<<"main">>), Absent)},
       h \in {NoBranch, NullBranch, BranchOf(Str(<<"topic">>), Str(<<"h0">>))},
       rv \in {NoList, NullList,
               List(<<[state |-> "APPROVED", submitted_at |-> Absent]>>),
               List(<<[state |-> "APPROVED", submitted_at |-> None]>>)},
       cs \in {NoCombined, NullCombined, CombinedOf(SuccessState, NullList),
               CombinedOf(SuccessState,
                   List(<<[context |-> "ci/build", state |-> "success", updated_at |-> None],
                          [context |-> "ci/build", state |-> "success", updated_at |-> None]>>))},
       runs \in {NoRuns, NullRuns, RunsOf(NullList),
                 RunsOf(List(<<[conclusion |-> "success", completed_at |-> None]>>))},
       rq \in {NoRequired, NullRequired, RequiredOf(List(<<"ci/build">>), NoList)} :
        it = ItemOf([number |-> 42, title |-> t, user |-> u, merged_at |-> m, base |-> b,
                     head |-> h, merge_commit_sha |-> Absent],
                    rv, cs, runs, rq)

RowIdle ==
    /\ item = ItemOf(PullOf(None), NoList, NoCombined, NoRuns, NoRequired)
    /\ out = Raised("")
    /\ row_pc = "idle"

\* rows = [compute_row(item) for item in data], transform.py 175: one item
ComputeRow ==
    /\ row_pc = "start"
    /\ out' = compute_row(item)
    /\ row_pc' = "done"
    /\ UNCHANGED item
    /\ UNCHANGED notRow

-----------------------------------------------------------------------------
(* Specifications *)

GetIdle ==
    /\ max_retries = 0
    /\ attempt = 0
    /\ resp = NoResp
    /\ wait_s = 0
    /\ now = 0
    /\ get_pc = "idle"
    /\ requests = 0
    /\ sleeps = <<>>

InitGet == GetStart /\ GenIdle /\ WinIdle /\ RowIdle

NextGet == Attempt \/ WaitRateLimit \/ Backoff \/ Exhausted

\* Single-threaded blocking code: a call that can take a step takes it.
FairSpecGet == InitGet /\ [][NextGet]_vars /\ WF_vars(NextGet)

InitPages == GenStart /\ GetIdle /\ WinIdle /\ RowIdle

NextPages == GenRequest \/ GenRequestFails \/ GenYield \/ GenResume

SpecPages == InitPages /\ [][NextPages]_vars

InitWindow == WinStart /\ GetIdle /\ GenIdle /\ RowIdle

NextWindow == WinNormalize \/ WinPage \/ WinFilterPR

SpecWindow == InitWindow /\ [][NextWindow]_vars

\* Composite records of the data model (spec section 3)
InitRow ==
    /\ \/ ReviewItem(item)
       \/ StrictItem(item)
       \/ FallbackRunItem(item)
       \/ FallbackStateItem(item)
       \/ PathItem(item)
    /\ out = Raised("")
    /\ row_pc = "start"
    /\ GetIdle /\ GenIdle /\ WinIdle

InitRowTotal ==
    /\ MalformedItem(item)
    /\ out = Raised("")
    /\ row_pc = "start"
    /\ GetIdle /\ GenIdle /\ WinIdle

NextRow == ComputeRow

SpecRow == InitRow /\ [][NextRow]_vars

SpecRowTotal == InitRowTotal /\ [][NextRow]_vars

\* History read off the sleep log.
RateLimitSleeps == SelectSeq(sleeps, LAMBDA s : s.kind = "rate_limit")
BackoffSleeps == SelectSeq(sleeps, LAMBDA s : s.kind = "backoff")
\* Responses so far of each class, the one in hand included.
HardFailsSoFar == Len(BackoffSleeps) + (IF get_pc = "backoff" THEN 1 ELSE 0)

-----------------------------------------------------------------------------
(* Claims about GitHubHTTP.get *)

\* C1: a rate-limit response is retried without consuming one of the
\* max_retries attempts, so a call of get gives up (raises) only after
\* max_retries failures that were not rate-limit responses.
RateLimitConsumesNoAttempt ==
    get_pc = "raised" => HardFailsSoFar = max_retries

\* C2: every call of get ends after at most max_retries requests; it returns
\* a response only if that response is a success, and with the ceiling
\* exhausted it raises the HTTP error of the last response.
GetEndsWithinCeiling ==
    /\ [](/\ requests <= max_retries
          /\ get_pc = "returned" => resp.status_code \in 200..399
          /\ get_pc = "raised" =>
                /\ requests = max_retries
                /\ resp.status_code \notin 200..399
          /\ get_pc # "returned_none")
    /\ <>(get_pc \in {"returned", "raised"})

\* C2 witness: the ceiling is exhausted by a mix of rate-limit responses and
\* other failures, and the call raises.
GetRaisedAfterMixedFailures ==
    /\ get_pc = "raised"
    /\ Len(RateLimitSleeps) >= 1
    /\ Len(BackoffSleeps) >= 1

\* The rate-limit sleeps whose duration came from the fallback arm.
IsFallbackSleep(s) == s.kind = "rate_limit" /\ s.reset.k # "digits"

\* C9: on a rate-limit response the wait is, with a numeric reset header, the
\* time left until that instant plus one second, never negative; otherwise a
\* fallback delay that grows exponentially (by a constant factor > 1) with
\* the number of attempts already made.
RateLimitWaitAsSpecified ==
    /\ \A i \in 1..Len(sleeps) :
          (sleeps[i].kind = "rate_limit" /\ sleeps[i].reset.k = "digits") =>
              /\ sleeps[i].wait_s >= 0
              /\ sleeps[i].wait_s = Max(0, sleeps[i].reset.v + 1 - sleeps[i].at)
    /\ \A i, j, k \in 1..Len(sleeps) :
          (/\ IsFallbackSleep(sleeps[i]) /\ IsFallbackSleep(sleeps[j])
           /\ IsFallbackSleep(sleeps[k])
           /\ sleeps[j].attempt = sleeps[i].attempt + 1
           /\ sleeps[k].attempt = sleeps[j].attempt + 1) =>
              /\ sleeps[i].wait_s < sleeps[j].wait_s
              /\ sleeps[k].wait_s * sleeps[i].wait_s = sleeps[j].wait_s * sleeps[j].wait_s

\* The part of C9 that the code does satisfy: the reset-header arm, and a
\* fallback delay that is 6 s times the number of attempts made plus one.
RateLimitWaitAsCoded ==
    \A i \in 1..Len(sleeps) :
        sleeps[i].kind = "rate_limit" =>
            IF sleeps[i].reset.k = "digits"
            THEN sleeps[i].wait_s = Max(0, sleeps[i].reset.v + 1 - sleeps[i].at)
            ELSE sleeps[i].wait_s = 6 * (sleeps[i].attempt + 1)

-----------------------------------------------------------------------------
(* Claims about list_closed_pr_pages *)

\* C3: for N pages of which all but the last carry a rel="next" link, the
\* generator issues exactly N fetches and yields (1, page 1), ..., (N, page N)
\* in that order and then stops; page i is yielded before page i+1 is
\* requested, and every request after the first goes to the URL of the
\* previous page's next link.
PagesFetchedInOrder ==
    /\ Len(fetched) <= n_pages
    /\ Len(yielded) <= Len(fetched)
    /\ Len(fetched) <= Len(yielded) + 1
    /\ \A i \in 1..Len(yielded) : yielded[i] = <<i, Payload(i)>>
    /\ \A i \in 1..Len(fetched) :
          fetched[i].url = IF i = 1 THEN BaseUrl ELSE PageUrl(i)
    /\ gen_pc = "done" => (Len(fetched) = n_pages /\ Len(yielded) = n_pages)
    /\ (gen_pc = "suspended" /\ Len(yielded) = n_pages) => ~Truthy(parse_next_link(page_resp.link))

\* C3 witness: three pages, links in the forge's full style, all pages yielded
ThreePagesDone ==
    /\ gen_pc = "done"
    /\ n_pages >= 3
    /\ link_style = "github"
    /\ Len(yielded) = n_pages

-----------------------------------------------------------------------------
(* Claims about the merge window *)

Kept(pr) == \E j \in 1..Len(merged_prs) : merged_prs[j] = pr

\* C7: with since and until given, a closed PR is kept iff its merged_at is
\* non-null and its calendar day lies between the since date and the until
\* date, both days included whole.
WindowIncludesBothDates ==
    (Truthy(since) /\ Truthy(until)) =>
        \A i \in 1..Len(seen) :
            Kept(seen[i]) <=>
                /\ seen[i].merged_at # None
                /\ since.v[1] <= seen[i].merged_at.v[1]
                /\ seen[i].merged_at.v[1] <= until.v[1]

\* What the filter does with the until date: only its first instant is inside.
WindowEndsAtMidnightOfUntil ==
    (Truthy(since) /\ Truthy(until)) =>
        \A i \in 1..Len(seen) :
            Kept(seen[i]) <=>
                /\ seen[i].merged_at # None
                /\ since.v[1] <= seen[i].merged_at.v[1]
                /\ \/ seen[i].merged_at.v[1] < until.v[1]
                   \/ seen[i].merged_at.v = <<until.v[1], 0>>

-----------------------------------------------------------------------------
(* Claims about the gate evaluator *)

\* The reading of the gate rules, on the fields of the timestamps themselves.
TsMissing(ts) == ts.k # "str" \/ ts.v = <<>>
TsLeq(a, b) == a.v[1] < b.v[1] \/ (a.v[1] = b.v[1] /\ a.v[2] <= b.v[2])
NotAfter(a, b) == TsMissing(a) \/ TsMissing(b) \/ TsLeq(a, b)

TheMergedAt == item.pr.merged_at
TheReviews == IF item.reviews.k = "list" THEN item.reviews.v ELSE <<>>
TheStatuses ==
    IF item.combined_status.k = "dict" /\ item.combined_status.statuses.k = "list"
    THEN item.combined_status.statuses.v ELSE <<>>
TheRuns ==
    IF item.check_runs.k = "dict" /\ item.check_runs.check_runs.k = "list"
    THEN item.check_runs.check_runs.v ELSE <<>>
Names(l) == IF l.k = "list" THEN {l.v[i] : i \in 1..Len(l.v)} \ {""} ELSE {}
TheRequired ==
    IF item.required_status_checks.k = "dict"
    THEN Names(item.required_status_checks.contexts)
         \cup Names(item.required_status_checks.checks)
    ELSE {}

Approving(r) == r.state = "APPROVED" /\ NotAfter(r.submitted_at, TheMergedAt)

\* C4: CR_PASSED is true iff some review is APPROVED and (its submitted_at is
\* missing, or merged_at is missing, or submitted_at <= merged_at); every
\* reordering of the reviews gives the same verdict.
CrPassedIffApprovedBeforeMerge ==
    row_pc = "done" =>
        /\ out.exc = ""
        /\ out.row.CR_PASSED <=> \E i \in 1..Len(TheReviews) : Approving(TheReviews[i])
        /\ \A p \in Permutations(1..Len(TheReviews)) :
              review_approved_before_merge(
                  [i \in 1..Len(TheReviews) |-> TheReviews[p[i]]],
                  parse_iso(DictGetOr(TheMergedAt, EmptyStr))) = out.row.CR_PASSED

\* C4 witness: an approval after the merge listed before one in time
LateApprovalThenTimelyApproval ==
    /\ row_pc = "done"
    /\ out.row.CR_PASSED
    /\ Len(TheReviews) = 2
    /\ TheReviews[1].state = "APPROVED" /\ ~Approving(TheReviews[1])
    /\ Approving(TheReviews[2])

\* Entry a is strictly later than entry b by updated_at; an entry without
\* updated_at is earlier than any with one.
Later(a, b) ==
    /\ ~TsMissing(a.updated_at)
    /\ TsMissing(b.updated_at) \/ ~TsLeq(a.updated_at, b.updated_at)

\* The entries for context c that no other entry for c is later than
LatestIdx(c) ==
    {i \in 1..Len(TheStatuses) :
        /\ TheStatuses[i].context = c
        /\ \A j \in 1..Len(TheStatuses) :
              TheStatuses[j].context = c => ~Later(TheStatuses[j], TheStatuses[i])}

EntryPasses(st) == st.state = "success" /\ NotAfter(st.updated_at, TheMergedAt)

\* C5: with a non-empty required-context list CHECKS_PASSED is the AND over
\* the required contexts of: the latest entry for the context is a success
\* not updated after the merge (or a timestamp is missing).  A required
\* context without entries, or whose latest entry is after the merge, gives
\* false.  (Where several entries share the latest updated_at the claim holds
\* whichever of them is meant.)
StrictChecksAndOverRequired ==
    (row_pc = "done" /\ TheRequired # {}) =>
        /\ out.exc = ""
        /\ out.path = "strict"
        /\ out.row.CHECKS_PASSED =>
              \A c \in TheRequired : \E i \in LatestIdx(c) : EntryPasses(TheStatuses[i])
        /\ (\A c \in TheRequired :
               /\ LatestIdx(c) # {}
               /\ \A i \in LatestIdx(c) : EntryPasses(TheStatuses[i]))
           => out.row.CHECKS_PASSED

\* C5 witness: two required contexts, each with a timely success
TwoRequiredContextsPass ==
    /\ row_pc = "done"
    /\ Cardinality(TheRequired) = 2
    /\ Len(TheStatuses) = 2
    /\ TheMergedAt # None
    /\ out.row.CHECKS_PASSED

RunOk(r) == r.conclusion \in {"success", "neutral", "skipped"}
            /\ NotAfter(r.completed_at, TheMergedAt)

CombinedIsSuccess ==
    item.combined_status.k = "dict" /\ item.combined_status.state = Str(<<"success">>)

\* C6: the fallback path is taken exactly when no required context is known,
\* and there CHECKS_PASSED = (combined state is success) AND (every check run
\* has a passing conclusion and completed not after the merge, or a timestamp
\* is missing); no check runs pass vacuously.
FallbackChecksCombinedAndRuns ==
    row_pc = "done" =>
        /\ out.exc = ""
        /\ out.path = "fallback" <=> TheRequired = {}
        /\ TheRequired = {} =>
              (out.row.CHECKS_PASSED <=>
                  /\ CombinedIsSuccess
                  /\ \A i \in 1..Len(TheRuns) : RunOk(TheRuns[i]))

\* C6 witness: no reviews, required contexts unavailable, combined state
\* success, no check runs: CR_PASSED false, CHECKS_PASSED true
UnavailableContextsVacuousPass ==
    /\ row_pc = "done"
    /\ item.required_status_checks.k # "dict"
    /\ TheReviews = <<>>
    /\ CombinedIsSuccess
    /\ TheRuns = <<>>
    /\ ~out.row.CR_PASSED
    /\ out.row.CHECKS_PASSED
    /\ out.path = "fallback"

Min(S) == CHOOSE x \in S : \A y \in S : x <= y
MaxOf(S) == CHOOSE x \in S : \A y \in S : x >= y
Verdict(b) == IF b THEN "True" ELSE "False"
TheContextVerdict(c) ==
    latest_context_state_before_merge(item.combined_status, c,
                                      parse_iso(DictGetOr(TheMergedAt, EmptyStr)))

\* C10: where several entries for a required context share its latest
\* updated_at, the one listed last decides the context.
TiesGoToLastSeen ==
    (row_pc = "done" /\ out.path = "strict") =>
        \A c \in TheRequired :
            Cardinality(LatestIdx(c)) >= 2 =>
                /\ TheContextVerdict(c) = Verdict(EntryPasses(TheStatuses[MaxOf(LatestIdx(c))]))
                /\ TheRequired = {c} =>
                      out.row.CHECKS_PASSED = EntryPasses(TheStatuses[MaxOf(LatestIdx(c))])

\* C10 as amended: the one listed first decides the context.
TiesGoToFirstSeen ==
    (row_pc = "done" /\ out.path = "strict") =>
        \A c \in TheRequired :
            Cardinality(LatestIdx(c)) >= 2 =>
                /\ TheContextVerdict(c) = Verdict(EntryPasses(TheStatuses[Min(LatestIdx(c))]))
                /\ TheRequired = {c} =>
                      out.row.CHECKS_PASSED = EntryPasses(TheStatuses[Min(LatestIdx(c))])

\* C10 witness: two entries for the one required context with the same
\* updated_at, a success listed before a failure
TiedEntriesDisagree ==
    /\ row_pc = "done"
    /\ out.path = "strict"
    /\ \E c \in TheRequired :
          /\ TheRequired = {c}
          /\ Cardinality(LatestIdx(c)) = 2
          /\ ~TsMissing(TheStatuses[Min(LatestIdx(c))].updated_at)
          /\ EntryPasses(TheStatuses[Min(LatestIdx(c))])
          /\ ~EntryPasses(TheStatuses[MaxOf(LatestIdx(c))])
          /\ out.row.CHECKS_PASSED

IsMissing(f) == f.k # "str"

\* C8: compute_row never raises on a record with absent or null fields, and
\* puts the empty string for a missing title, author or branch name.
RowBuiltFromAnyRecord ==
    row_pc = "done" =>
        /\ out.exc = ""
        /\ IsMissing(item.pr.title) => out.row.title = EmptyStr
        /\ (item.pr.user.k # "dict" \/ IsMissing(item.pr.user.login))
              => out.row.author = EmptyStr
        /\ (item.pr.base.k # "dict" \/ IsMissing(item.pr.base.ref))
              => out.row.base = EmptyStr
        /\ (item.pr.head.k # "dict" \/ IsMissing(item.pr.head.ref))
              => out.row.head = EmptyStr

=============================================================================
